---- MODULE Spec2Model ----
(***************************************************************************)
(* The SiteXML data model of obspy.core.inventory.sitexml: the validators   *)
(* of sitexml_header.py and the entity constructors of sitexml.py, over a   *)
(* heap of constructed entities.                                            *)
(***************************************************************************)
EXTENDS Integers, Sequences, FiniteSets, TLC

VARIABLES heap, last

vars == <<heap, last>>

(* The number of entities a run keeps alive. *)
MaxHeap == 2

-----------------------------------------------------------------------------
(* Python values.  k is the runtime kind: the builtin type's name, or "ref"  *)
(* for a reference to the entity heap[n].                                   *)

Val(k, s, n, e) == [k |-> k, s |-> s, n |-> n, e |-> e]

None == Val("NoneType", "", 0, <<>>)

Str(s) == Val("str", s, 0, <<>>)

Num(n) == Val("int", "", n, <<>>)

List(e) == Val("list", "", 0, e)

Tuple(e) == Val("tuple", "", 0, e)

Ref(i) == Val("ref", "", i, <<>>)

(* type(value).__name__ *)
TypeName(h, value) == IF value.k = "ref" THEN h[value.n].cls ELSE value.k

(* bool(value): None, 0, "" and empty sequences are false; an entity        *)
(* defines neither __bool__ nor __len__ and is true.                        *)
Truthy(value) ==
    CASE value.k = "NoneType" -> FALSE
      [] value.k = "str" -> value.s # ""
      [] value.k = "int" -> value.n # 0
      [] value.k \in {"list", "tuple"} -> value.e # <<>>
      [] OTHER -> TRUE

(* a or b *)
PyOr(a, b) == IF Truthy(a) THEN a ELSE b

IsSequence(value) == value.k \in {"list", "tuple"}

-----------------------------------------------------------------------------
(* The classes of sitexml.py and their bases.                               *)

IndicatorSubtypes ==
    {"H800_class", "EC8_class", "BedrockDepth", "GeologicalUnit",
     "ResonanceFrequency", "velocityS30"}

EntityClasses ==
    {"SERASite", "SiteDescription", "SiteCharacterizationParameters",
     "VelocityProfile", "VelocityProfileData", "SiteIndicator",
     "LiteratureSource"} \cup IndicatorSubtypes

BaseOf(cls) ==
    IF cls \in IndicatorSubtypes THEN "SiteIndicator"
    ELSE IF cls \in EntityClasses THEN "ComparingObject"
    ELSE "object"

(* issubclass(cls, target): the class hierarchy is three levels deep.       *)
IsSubclass(cls, target) ==
    \/ cls = target
    \/ BaseOf(cls) = target
    \/ BaseOf(BaseOf(cls)) = target
    \/ target = "object"

(* An expected type is one class or a tuple of classes.                     *)
TClass(name) == [tk |-> "class", name |-> name, items |-> <<>>]

TTuple(items) == [tk |-> "tuple", name |-> "", items |-> items]

(* isinstance(value, expected_type) *)
IsInstance(h, value, expected_type) ==
    IF expected_type.tk = "tuple"
    THEN \E i \in 1..Len(expected_type.items) :
            IsSubclass(TypeName(h, value), expected_type.items[i])
    ELSE IsSubclass(TypeName(h, value), expected_type.name)

-----------------------------------------------------------------------------
(* Exceptions, by type and by the parts their message is built from.        *)

Exc(type, param, expected, actual, allowed, value) ==
    [type |-> type, param |-> param, expected |-> expected, actual |-> actual,
     allowed |-> allowed, value |-> value]

NoExc == Exc("", "", "", "", <<>>, None)

(* TypeError(f"Expected '{param_name}' to be of type {expected}, but got    *)
(* {actual} instead.")                                                      *)
TypeError(param_name, expected, actual) ==
    Exc("TypeError", param_name, expected, actual, <<>>, None)

(* ValueError(f"Invalid value for '{param_name}'. Expected one of           *)
(* {valid_values}, but got '{value}'.")                                     *)
ValueError(param_name, valid_values, value) ==
    Exc("ValueError", param_name, "", "", valid_values, value)

(* A tuple has no attribute __name__.                                       *)
AttributeError(obj, attr) == Exc("AttributeError", "", obj, attr, <<>>, None)

Return(value) == [exc |-> NoExc, ret |-> value]

Raise(exc) == [exc |-> exc, ret |-> None]

-----------------------------------------------------------------------------
(* sitexml_header.py                                                        *)

TopographySchemaA == <<"T1", "T2", "T3", "T4">>

TopographySchemaB ==
    <<"Valley", "Lower slope", "Flat", "Middle slope", "Upper slope", "Ridge">>

(* value in enum_type: the enumeration is a closed set of string tags.      *)
EnumContains(enum_type, value) ==
    /\ value.k = "str"
    /\ \E i \in 1..Len(enum_type) : enum_type[i] = value.s

(* [e for e in enum_type]: the tags as declared.                            *)
EnumValues(enum_type) == enum_type

(* Mutant: an attribute no type object has.                                 *)
TypeNameAttrMissing(expected_type) == Raise(AttributeError("type", "name"))

(* expected_type.__name__ *)
TypeNameAttr(expected_type) ==
    IF expected_type.tk = "tuple"
    THEN Raise(AttributeError("tuple", "__name__"))
    ELSE Return(Str(expected_type.name))

(* Mutant: the absent marker is checked like any other value.               *)
CheckTypeIgnoresAllowNone(h, value, expected_type, param_name, allow_none) ==
    IF ~IsInstance(h, value, expected_type)
    THEN Raise(TypeError(param_name, expected_type.name, TypeName(h, value)))
    ELSE Return(value)

(* Mutant: "not value" in place of "value is None".                         *)
CheckTypeFalsyAbsent(h, value, expected_type, param_name, allow_none) ==
    IF allow_none /\ ~Truthy(value)
    THEN Return(value)
    ELSE IF ~IsInstance(h, value, expected_type)
         THEN Raise(TypeError(param_name, expected_type.name,
                              TypeName(h, value)))
         ELSE Return(value)

_sitexml_check_type(h, value, expected_type, param_name, allow_none) ==
    IF allow_none /\ value = None
    THEN Return(value)
    ELSE IF ~IsInstance(h, value, expected_type)
         THEN LET name == TypeNameAttr(expected_type)
              IN IF name.exc # NoExc
                 THEN Raise(name.exc)
                 ELSE Raise(TypeError(param_name, name.ret.s,
                                      TypeName(h, value)))
         ELSE Return(value)

(* Mutant: the message is built with the default parameter name.            *)
CheckEnumDefaultName(value, enum_type, param_name, allow_none) ==
    IF allow_none /\ value = None
    THEN Return(value)
    ELSE IF ~EnumContains(enum_type, value)
         THEN Raise(ValueError("value", EnumValues(enum_type), value))
         ELSE Return(value)

_sitexml_check_enum(value, enum_type, param_name, allow_none) ==
    IF allow_none /\ value = None
    THEN Return(value)
    ELSE IF ~EnumContains(enum_type, value)
         THEN Raise(ValueError(param_name, EnumValues(enum_type), value))
         ELSE Return(value)

(* The exception of the first statement that raised, in program order.      *)
FirstExc(results) ==
    IF \A i \in 1..Len(results) : results[i].exc = NoExc
    THEN NoExc
    ELSE results[CHOOSE i \in 1..Len(results) :
                    /\ results[i].exc # NoExc
                    /\ \A j \in 1..(i - 1) : results[j].exc = NoExc].exc

(* An __init__ that ran to its end leaves self.__dict__ = fields.           *)
Built(fields) == [exc |-> NoExc, fields |-> fields]

Failed(exc) == [exc |-> exc, fields |-> <<>>]

-----------------------------------------------------------------------------
(* sitexml.py: each __init__ as the fields it leaves on self, or the        *)
(* exception it raised.                                                     *)

(* Mutant: self stored in place of the description.                         *)
SERASiteHoldsItself(h, station_code, site_description, site_characterization_parameters, overall_quality_index) ==
    Built([station_code |-> station_code,
           site_description |-> Ref(Len(h) + 1),
           site_characterization_parameters |->
               site_characterization_parameters,
           overall_quality_index |-> overall_quality_index])

SERASite_init(h, station_code, site_description, site_characterization_parameters, overall_quality_index) ==
    LET sd == _sitexml_check_type(h, site_description,
                  TClass("SiteDescription"), "site_description", TRUE)
        scp == _sitexml_check_type(h, site_characterization_parameters,
                  TClass("SiteCharacterizationParameters"),
                  "site_characterization_parameters", TRUE)
        exc == FirstExc(<<sd, scp>>)
    IN IF exc # NoExc
       THEN Failed(exc)
       ELSE Built([station_code |-> station_code,
                   site_description |-> sd.ret,
                   site_characterization_parameters |-> scp.ret,
                   overall_quality_index |-> overall_quality_index])

SiteDescription_init(h, latitude, longitude, altitude, minDistanceFromStation, maxDistanceFromStation, EC8, bedrock_depth, H800, geological_unit, morphology, topologyA, topologyB) ==
    LET c1 == _sitexml_check_type(h, EC8, TClass("EC8_class"), "EC8", TRUE)
        c2 == _sitexml_check_type(h, bedrock_depth, TClass("BedrockDepth"),
                                  "bedrock_depth", TRUE)
        c3 == _sitexml_check_type(h, H800, TClass("H800_class"), "H800", TRUE)
        c4 == _sitexml_check_type(h, geological_unit,
                  TClass("GeologicalUnit"), "geological_unit", TRUE)
        c5 == _sitexml_check_enum(topologyA, TopographySchemaA, "topologyA",
                                  TRUE)
        c6 == _sitexml_check_enum(topologyB, TopographySchemaB, "topologyB",
                                  TRUE)
        exc == FirstExc(<<c1, c2, c3, c4, c5, c6>>)
    IN IF exc # NoExc
       THEN Failed(exc)
       ELSE Built([latitude |-> latitude,
                   longitude |-> longitude,
                   altitude |-> altitude,
                   minDistanceFromStation |-> minDistanceFromStation,
                   maxDistanceFromStation |-> maxDistanceFromStation,
                   EC8 |-> c1.ret,
                   bedrock_depth |-> c2.ret,
                   H800 |-> c3.ret,
                   geological_unit |-> c4.ret,
                   morphology |-> morphology,
                   topologyA |-> c5.ret,
                   topologyB |-> c6.ret])

SiteCharacterizationParameters_init(h, publicID, analysis_publicID, resonance_frequency, velocity_s30, velocity_profile_count, velocity_profile, spt_logs_count, cpt_logs_count, borehole_logs_count) ==
    LET c1 == _sitexml_check_type(h, resonance_frequency,
                  TClass("ResonanceFrequency"), "resonance_frequency", TRUE)
        c2 == _sitexml_check_type(h, velocity_s30, TClass("velocityS30"),
                                  "velocity_s30", TRUE)
        exc == FirstExc(<<c1, c2>>)
    IN IF exc # NoExc
       THEN Failed(exc)
       ELSE Built([publicID |-> publicID,
                   analysis_publicID |-> analysis_publicID,
                   resonance_frequency |-> c1.ret,
                   velocity_s30 |-> c2.ret,
                   velocity_profile_count |-> velocity_profile_count,
                   velocity_profile |-> PyOr(velocity_profile, List(<<>>)),
                   spt_logs_count |-> spt_logs_count,
                   cpt_logs_count |-> cpt_logs_count,
                   borehole_logs_count |-> borehole_logs_count])

VelocityProfile_init(layer_count, velocity_profile_data) ==
    Built([layer_count |-> layer_count,
           velocity_profile_data |-> velocity_profile_data])

VelocityProfileData_init(density, velocityP, velocityS, layer_top_depth, layer_bottom_depth) ==
    Built([density |-> density,
           velocityP |-> velocityP,
           velocityS |-> velocityS,
           layerTopDepth |-> layer_top_depth,
           layerBottomDepth |-> layer_bottom_depth])

(* Mutant: methods stored without its default.                              *)
SiteIndicatorStoresMethods(name, value, uncertainty, methods, quality_index, literature_source, external_reference) ==
    Built([name |-> name,
           value |-> value,
           uncertainty |-> uncertainty,
           methods |-> methods,
           quality_index |-> quality_index,
           literature_source |-> literature_source,
           external_reference |-> external_reference])

SiteIndicator_init(name, value, uncertainty, methods, quality_index, literature_source, external_reference) ==
    Built([name |-> name,
           value |-> value,
           uncertainty |-> uncertainty,
           methods |-> PyOr(methods, List(<<>>)),
           quality_index |-> quality_index,
           literature_source |-> literature_source,
           external_reference |-> external_reference])

H800_class_init(value, uncertainty, methods, quality_index, literature_source, external_reference) ==
    SiteIndicator_init(Str("H800"), value, uncertainty, methods,
                       quality_index, literature_source, external_reference)

EC8_class_init(value, uncertainty, methods, quality_index, literature_source, external_reference) ==
    SiteIndicator_init(Str("EC8"), value, uncertainty, methods,
                       quality_index, literature_source, external_reference)

(* Mutant: the name of the class above, copied.                             *)
BedrockDepthNamedEC8(value, uncertainty, methods, quality_index, literature_source, external_reference) ==
    SiteIndicator_init(Str("EC8"), value, uncertainty, methods,
                       quality_index, literature_source, external_reference)

BedrockDepth_init(value, uncertainty, methods, quality_index, literature_source, external_reference) ==
    SiteIndicator_init(Str("bedrock_depth"), value, uncertainty, methods,
                       quality_index, literature_source, external_reference)

(* Mutant: the map scale is not kept.                                       *)
GeologicalUnitDropsScale(value, uncertainty, methods, quality_index, literature_source, external_reference, geological_map_scale, geological_unit_OGE) ==
    Built([geological_map_scale |-> None,
           geological_unit_OGE |-> geological_unit_OGE]
          @@ SiteIndicator_init(Str("geological_unit"), value, uncertainty,
                 methods, quality_index, literature_source,
                 external_reference).fields)

(* The subtype's own fields are set before the base __init__ runs.          *)
GeologicalUnit_init(value, uncertainty, methods, quality_index, literature_source, external_reference, geological_map_scale, geological_unit_OGE) ==
    LET base == SiteIndicator_init(Str("geological_unit"), value,
                    uncertainty, methods, quality_index, literature_source,
                    external_reference)
    IN IF base.exc # NoExc
       THEN base
       ELSE Built([geological_map_scale |-> geological_map_scale,
                   geological_unit_OGE |-> geological_unit_OGE]
                  @@ base.fields)

ResonanceFrequency_init(value, uncertainty, methods, quality_index, literature_source, external_reference) ==
    SiteIndicator_init(Str("resonance_frequency"), value, uncertainty,
                       methods, quality_index, literature_source,
                       external_reference)

velocityS30_init(value, uncertainty, methods, quality_index, literature_source, external_reference, method_combined_quality_index, manual_quality_index) ==
    LET base == SiteIndicator_init(Str("velocity_s30"), value, uncertainty,
                    methods, quality_index, literature_source,
                    external_reference)
    IN IF base.exc # NoExc
       THEN base
       ELSE Built([method_combined_quality_index |->
                       method_combined_quality_index,
                   manual_quality_index |-> manual_quality_index]
                  @@ base.fields)

LiteratureSource_init(title, firstAuthor, secondaryAuthors, year, booktitle, language, DOI) ==
    Built([title |-> title,
           firstAuthor |-> firstAuthor,
           secondaryAuthors |-> secondaryAuthors,
           year |-> year,
           booktitle |-> booktitle,
           language |-> language,
           DOI |-> DOI])

-----------------------------------------------------------------------------
(* ComparingObject: equality of two entities of the same type is            *)
(* structural, field by field, entities held in fields compared in turn.    *)

RECURSIVE ValEq(_, _, _)

RECURSIVE ObjEq(_, _, _)

(* a == b *)
ValEq(h, a, b) ==
    IF a.k = "ref" /\ b.k = "ref"
    THEN ObjEq(h, a.n, b.n)
    ELSE IF a.k \in {"list", "tuple"} /\ a.k = b.k
         THEN /\ Len(a.e) = Len(b.e)
              /\ \A i \in 1..Len(a.e) : ValEq(h, a.e[i], b.e[i])
         ELSE a = b

(* heap[i] == heap[j] *)
ObjEq(h, i, j) ==
    \/ i = j
    \/ /\ h[i].cls = h[j].cls
       /\ DOMAIN h[i].fields = DOMAIN h[j].fields
       /\ \A f \in DOMAIN h[i].fields :
              ValEq(h, h[i].fields[f], h[j].fields[f])

(* The entities an entity holds: in a field, or in a sequence in a field.   *)
HeldBy(value) ==
    IF value.k = "ref"
    THEN {value.n}
    ELSE IF value.k \in {"list", "tuple"}
         THEN {value.e[i].n : i \in {k \in 1..Len(value.e) : value.e[k].k = "ref"}}
         ELSE {}

Children(h, i) == UNION {HeldBy(h[i].fields[f]) : f \in DOMAIN h[i].fields}

RECURSIVE Closure(_, _, _)

(* The entities reachable from those of S in at most n more steps.          *)
Closure(h, S, n) ==
    IF n = 0
    THEN S
    ELSE Closure(h, S \cup UNION {Children(h, i) : i \in S}, n - 1)

Descendants(h, i) == Closure(h, Children(h, i), Len(h))

-----------------------------------------------------------------------------
(* The inputs of the calls.  For each class, ...Args(h) are the arguments a  *)
(* call is made with on the heap h, and ...Kept(h) those among them of the  *)
(* entities that a caller keeps alive, to pass them on to later calls;      *)
(* every other entity is examined as returned and let go.                   *)

Refs(h) == {Ref(i) : i \in 1..Len(h)}

RefsOf(h, cls) == {Ref(i) : i \in {j \in 1..Len(h) : h[j].cls = cls}}

(* Present values of any type: a bare string, a number, any entity.         *)
Present(h) == {Str("x"), Num(0)} \cup Refs(h)

(* One wrong value and the entities: for calls that vary two arguments.     *)
Present2(h) == {Str("x")} \cup Refs(h)

(* What callers pass as methods or velocity_profile.                        *)
SequenceArgs(h) ==
    {List(<<>>), Tuple(<<>>), Num(0), Str(""), Num(5),
     List(<<Str("hvsr")>>), Tuple(<<Str("hvsr")>>)}
    \cup {List(<<r>>) : r \in Refs(h)}

(* base with at most one argument replaced by a value of its domain         *)
Vary1(base, doms) ==
    {base} \cup UNION {{[base EXCEPT ![f] = v] : v \in doms[f]} :
                       f \in DOMAIN doms}

(* base with at most two arguments replaced                                 *)
Vary2(base, doms) == UNION {Vary1(b, doms) : b \in Vary1(base, doms)}

SERASiteBase ==
    [station_code |-> Str("STA"), site_description |-> None,
     site_characterization_parameters |-> None,
     overall_quality_index |-> None]

SERASiteArgs(h) ==
    Vary1(SERASiteBase,
          [station_code |-> {None},
           site_description |-> Present(h),
           site_characterization_parameters |-> Present(h),
           overall_quality_index |-> {Num(1)}])
    \cup Vary2([SERASiteBase EXCEPT !.overall_quality_index = Num(1)],
               [site_description |-> Present2(h),
                site_characterization_parameters |-> Present2(h)])

SERASiteKept(h) ==
    Vary2(SERASiteBase,
          [site_description |-> RefsOf(h, "SiteDescription"),
           site_characterization_parameters |->
               RefsOf(h, "SiteCharacterizationParameters")])

SiteDescriptionBase ==
    [latitude |-> Num(42), longitude |-> Num(13), altitude |-> None,
     minDistanceFromStation |-> None, maxDistanceFromStation |-> None,
     EC8 |-> None, bedrock_depth |-> None, H800 |-> None,
     geological_unit |-> None, morphology |-> None, topologyA |-> None,
     topologyB |-> None]

(* Every plain argument given, the minimum distance above the maximum.      *)
SiteDescriptionFull ==
    [SiteDescriptionBase EXCEPT !.altitude = Num(700),
                                !.minDistanceFromStation = Num(9),
                                !.maxDistanceFromStation = Num(5),
                                !.morphology = Str("hill")]

TopologyAArgs ==
    {Str(TopographySchemaA[i]) : i \in 1..Len(TopographySchemaA)}
    \cup {Str("T9"), Str("t1"), Str(""), Num(1)}

TopologyBArgs ==
    {Str(TopographySchemaB[i]) : i \in 1..Len(TopographySchemaB)}
    \cup {Str("Hill"), Str("T1"), List(<<>>)}

SiteDescriptionArgs(h) ==
    Vary1(SiteDescriptionBase,
          [latitude |-> {None}, minDistanceFromStation |-> {Num(9)},
           EC8 |-> Present(h), bedrock_depth |-> Present(h),
           H800 |-> Present(h), geological_unit |-> Present(h),
           topologyA |-> TopologyAArgs, topologyB |-> TopologyBArgs])
    \cup Vary2(SiteDescriptionFull,
               [EC8 |-> Present2(h), bedrock_depth |-> {Str("x")},
                H800 |-> Present2(h), geological_unit |-> {Num(0)},
                topologyA |-> {Str("T2"), Str("T9")},
                topologyB |-> {Str("Ridge"), Str("Hill")}])

SiteDescriptionKept(h) ==
    Vary1(SiteDescriptionBase,
          [EC8 |-> RefsOf(h, "EC8_class"),
           bedrock_depth |-> RefsOf(h, "BedrockDepth"),
           H800 |-> RefsOf(h, "H800_class"),
           geological_unit |-> RefsOf(h, "GeologicalUnit")])

SiteCharacterizationParametersBase ==
    [publicID |-> None, analysis_publicID |-> None,
     resonance_frequency |-> None, velocity_s30 |-> None,
     velocity_profile_count |-> None, velocity_profile |-> None,
     spt_logs_count |-> None, cpt_logs_count |-> None,
     borehole_logs_count |-> None]

SiteCharacterizationParametersFull ==
    [SiteCharacterizationParametersBase EXCEPT
        !.publicID = Str("id"), !.analysis_publicID = Str("aid"),
        !.velocity_profile_count = Num(1), !.spt_logs_count = Num(2),
        !.cpt_logs_count = Num(3), !.borehole_logs_count = Num(4)]

SiteCharacterizationParametersArgs(h) ==
    Vary1(SiteCharacterizationParametersBase,
          [resonance_frequency |-> Present(h), velocity_s30 |-> Present(h),
           velocity_profile |-> SequenceArgs(h) \cup Refs(h)])
    \cup Vary2(SiteCharacterizationParametersFull,
               [resonance_frequency |-> Present2(h),
                velocity_s30 |-> Present2(h),
                velocity_profile |-> {Tuple(<<>>), Num(5)}])

SiteCharacterizationParametersKept(h) ==
    Vary1(SiteCharacterizationParametersBase,
          [resonance_frequency |-> RefsOf(h, "ResonanceFrequency"),
           velocity_s30 |-> RefsOf(h, "velocityS30"),
           velocity_profile |->
               {List(<<r>>) : r \in RefsOf(h, "VelocityProfile")}])

VelocityProfileBase == [layer_count |-> Num(3), velocity_profile_data |-> None]

VelocityProfileArgs(h) ==
    Vary1(VelocityProfileBase,
          [layer_count |-> {None},
           velocity_profile_data |-> Present(h)])

VelocityProfileKept(h) ==
    Vary1(VelocityProfileBase,
          [velocity_profile_data |-> RefsOf(h, "VelocityProfileData")])

VelocityProfileDataBase ==
    [density |-> Num(1), velocityP |-> Num(2), velocityS |-> Num(3),
     layer_top_depth |-> Num(4), layer_bottom_depth |-> Num(5)]

VelocityProfileDataArgs ==
    Vary1(VelocityProfileDataBase,
          [density |-> {None}, layer_bottom_depth |-> {Num(4)}])

(* Layer data and literature sources are built and let go.                  *)
VelocityProfileDataKept == {}

(* The arguments every indicator constructor takes.                         *)
IndicatorBase ==
    [value |-> Num(1), uncertainty |-> None, methods |-> None,
     quality_index |-> None, literature_source |-> None,
     external_reference |-> None]

IndicatorFull ==
    [value |-> Num(2), uncertainty |-> Num(7), methods |-> None,
     quality_index |-> Num(8), literature_source |-> Str("src"),
     external_reference |-> Str("url")]

IndicatorDoms(h) ==
    [value |-> {None}, methods |-> SequenceArgs(h),
     literature_source |-> Refs(h)]

IndicatorArgs(h) ==
    Vary1(IndicatorBase, IndicatorDoms(h))
    \cup Vary1(IndicatorFull,
               [methods |-> {Tuple(<<>>), Num(5), List(<<Str("hvsr")>>)}])

IndicatorKept(h) == {IndicatorBase}

With(args, extra) == extra @@ args

SiteIndicatorArgs(h) ==
    {With(a, [name |-> n]) : a \in IndicatorArgs(h), n \in {Str("n")}}
    \cup {With(IndicatorBase, [name |-> n]) : n \in {None, Str("H800")}}

SiteIndicatorKept(h) ==
    {With(a, [name |-> Str("n")]) : a \in IndicatorKept(h)}

GeologicalUnitArgs(h) ==
    {With(a, [geological_map_scale |-> None, geological_unit_OGE |-> None]) :
        a \in IndicatorArgs(h)}
    \cup Vary2(With(IndicatorBase, [geological_map_scale |-> None,
                                    geological_unit_OGE |-> None]),
               [geological_map_scale |-> {Num(25000)},
                geological_unit_OGE |-> {Str("oge")}])

GeologicalUnitKept(h) ==
    {With(a, [geological_map_scale |-> None, geological_unit_OGE |-> None]) :
        a \in IndicatorKept(h)}

velocityS30Args(h) ==
    {With(a, [method_combined_quality_index |-> None,
              manual_quality_index |-> None]) : a \in IndicatorArgs(h)}
    \cup Vary2(With(IndicatorBase, [method_combined_quality_index |-> None,
                                    manual_quality_index |-> None]),
               [method_combined_quality_index |-> {Num(6)},
                manual_quality_index |-> {Num(4)}])

velocityS30Kept(h) ==
    {With(a, [method_combined_quality_index |-> None,
              manual_quality_index |-> None]) : a \in IndicatorKept(h)}

LiteratureSourceBase ==
    [title |-> Str("t"), firstAuthor |-> None, secondaryAuthors |-> None,
     year |-> None, booktitle |-> None, language |-> None, DOI |-> None]

LiteratureSourceFull ==
    [title |-> Str("t2"), firstAuthor |-> Str("a"),
     secondaryAuthors |-> List(<<Str("b")>>), year |-> Num(2014),
     booktitle |-> Str("bt"), language |-> Str("en"), DOI |-> Str("doi")]

LiteratureSourceArgs ==
    {LiteratureSourceBase, LiteratureSourceFull,
     [LiteratureSourceBase EXCEPT !.title = None]}

LiteratureSourceKept == {}

(* The validators called on their own.                                      *)
ExpectedTypes ==
    {TClass("EC8_class"), TClass("SiteIndicator"),
     TTuple(<<"EC8_class", "H800_class">>), TTuple(<<"str", "int">>)}

CheckTypeArgs(h) ==
    [value : {None} \cup Present(h), expected_type : ExpectedTypes,
     param_name : {"EC8"}, allow_none : BOOLEAN]

CheckEnumArgs ==
    [value : {None, Str("T1"), Str("T9"), Str("Ridge"), Num(1)},
     enum_type : {TopographySchemaA, TopographySchemaB},
     param_name : {"topology"}, allow_none : BOOLEAN]

-----------------------------------------------------------------------------
(* The calls.  heap holds the entities alive, in the order they were        *)
(* allocated; last is the call in progress: its arguments, either the       *)
(* value it returned or the exception it raised to the caller, and whether  *)
(* the entity it returned is one the caller may keep.                       *)

Idle ==
    [op |-> "idle", args |-> <<>>, exc |-> NoExc, ret |-> None,
     keepable |-> FALSE]

Init ==
    /\ heap = <<>>
    /\ last = Idle

(* A call of the class cls: __init__ ran as r says; the new entity is returned, or the  *)
(* exception propagates and no entity reaches the caller.                   *)
Construct(cls, args, r, keepable) ==
    /\ IF r.exc = NoExc
       THEN /\ heap' = Append(heap, [cls |-> cls, fields |-> r.fields])
            /\ last' = [op |-> cls, args |-> args, exc |-> NoExc,
                        ret |-> Ref(Len(heap) + 1), keepable |-> keepable]
       ELSE /\ heap' = heap
            /\ last' = [op |-> cls, args |-> args, exc |-> r.exc,
                        ret |-> None, keepable |-> FALSE]

NewSERASite ==
    /\ last.op = "idle"
    /\ \E a \in SERASiteArgs(heap) :
        Construct("SERASite", a,
            SERASite_init(heap, a.station_code, a.site_description,
                a.site_characterization_parameters, a.overall_quality_index),
            a \in SERASiteKept(heap))

NewSiteDescription ==
    /\ last.op = "idle"
    /\ \E a \in SiteDescriptionArgs(heap) :
        Construct("SiteDescription", a,
            SiteDescription_init(heap, a.latitude, a.longitude, a.altitude,
                a.minDistanceFromStation, a.maxDistanceFromStation, a.EC8,
                a.bedrock_depth, a.H800, a.geological_unit, a.morphology,
                a.topologyA, a.topologyB),
            a \in SiteDescriptionKept(heap))

NewSiteCharacterizationParameters ==
    /\ last.op = "idle"
    /\ \E a \in SiteCharacterizationParametersArgs(heap) :
        Construct("SiteCharacterizationParameters", a,
            SiteCharacterizationParameters_init(heap, a.publicID,
                a.analysis_publicID, a.resonance_frequency, a.velocity_s30,
                a.velocity_profile_count, a.velocity_profile,
                a.spt_logs_count, a.cpt_logs_count, a.borehole_logs_count),
            a \in SiteCharacterizationParametersKept(heap))

NewVelocityProfile ==
    /\ last.op = "idle"
    /\ \E a \in VelocityProfileArgs(heap) :
        Construct("VelocityProfile", a,
            VelocityProfile_init(a.layer_count, a.velocity_profile_data),
            a \in VelocityProfileKept(heap))

NewVelocityProfileData ==
    /\ last.op = "idle"
    /\ \E a \in VelocityProfileDataArgs :
        Construct("VelocityProfileData", a,
            VelocityProfileData_init(a.density, a.velocityP, a.velocityS,
                a.layer_top_depth, a.layer_bottom_depth),
            a \in VelocityProfileDataKept)

NewSiteIndicator ==
    /\ last.op = "idle"
    /\ \E a \in SiteIndicatorArgs(heap) :
        Construct("SiteIndicator", a,
            SiteIndicator_init(a.name, a.value, a.uncertainty, a.methods,
                a.quality_index, a.literature_source, a.external_reference),
            a \in SiteIndicatorKept(heap))

NewH800_class ==
    /\ last.op = "idle"
    /\ \E a \in IndicatorArgs(heap) :
        Construct("H800_class", a,
            H800_class_init(a.value, a.uncertainty, a.methods,
                a.quality_index, a.literature_source, a.external_reference),
            a \in IndicatorKept(heap))

NewEC8_class ==
    /\ last.op = "idle"
    /\ \E a \in IndicatorArgs(heap) :
        Construct("EC8_class", a,
            EC8_class_init(a.value, a.uncertainty, a.methods,
                a.quality_index, a.literature_source, a.external_reference),
            a \in IndicatorKept(heap))

NewBedrockDepth ==
    /\ last.op = "idle"
    /\ \E a \in IndicatorArgs(heap) :
        Construct("BedrockDepth", a,
            BedrockDepth_init(a.value, a.uncertainty, a.methods,
                a.quality_index, a.literature_source, a.external_reference),
            a \in IndicatorKept(heap))

NewGeologicalUnit ==
    /\ last.op = "idle"
    /\ \E a \in GeologicalUnitArgs(heap) :
        Construct("GeologicalUnit", a,
            GeologicalUnit_init(a.value, a.uncertainty, a.methods,
                a.quality_index, a.literature_source, a.external_reference,
                a.geological_map_scale, a.geological_unit_OGE),
            a \in GeologicalUnitKept(heap))

NewResonanceFrequency ==
    /\ last.op = "idle"
    /\ \E a \in IndicatorArgs(heap) :
        Construct("ResonanceFrequency", a,
            ResonanceFrequency_init(a.value, a.uncertainty, a.methods,
                a.quality_index, a.literature_source, a.external_reference),
            a \in IndicatorKept(heap))

NewvelocityS30 ==
    /\ last.op = "idle"
    /\ \E a \in velocityS30Args(heap) :
        Construct("velocityS30", a,
            velocityS30_init(a.value, a.uncertainty, a.methods,
                a.quality_index, a.literature_source, a.external_reference,
                a.method_combined_quality_index, a.manual_quality_index),
            a \in velocityS30Kept(heap))

NewLiteratureSource ==
    /\ last.op = "idle"
    /\ \E a \in LiteratureSourceArgs :
        Construct("LiteratureSource", a,
            LiteratureSource_init(a.title, a.firstAuthor, a.secondaryAuthors,
                a.year, a.booktitle, a.language, a.DOI),
            a \in LiteratureSourceKept)

(* A validator called on its own.                                           *)
Validate(op, args, r) ==
    /\ heap' = heap
    /\ last' = [op |-> op, args |-> args, exc |-> r.exc, ret |-> r.ret,
                keepable |-> FALSE]

CallCheckType ==
    /\ last.op = "idle"
    /\ \E a \in CheckTypeArgs(heap) :
        Validate("_sitexml_check_type", a,
            _sitexml_check_type(heap, a.value, a.expected_type, a.param_name,
                                a.allow_none))

CallCheckEnum ==
    /\ last.op = "idle"
    /\ \E a \in CheckEnumArgs :
        Validate("_sitexml_check_enum", a,
            _sitexml_check_enum(a.value, a.enum_type, a.param_name,
                                a.allow_none))

Succeeded == last.op \in EntityClasses /\ last.exc = NoExc

(* The caller binds the new entity: it stays alive.  At most MaxHeap        *)
(* entities are kept.                                                       *)
Keep ==
    /\ Succeeded
    /\ last.keepable
    /\ Len(heap) <= MaxHeap
    /\ last' = Idle
    /\ heap' = heap

(* The caller lets go of the new entity.                                    *)
Drop ==
    /\ Succeeded
    /\ heap' = SubSeq(heap, 1, Len(heap) - 1)
    /\ last' = Idle

(* The caller handles the exception.                                        *)
Caught ==
    /\ last.exc # NoExc
    /\ last' = Idle
    /\ heap' = heap

(* A validator returned to its caller.                                      *)
Returned ==
    /\ last.op \in {"_sitexml_check_type", "_sitexml_check_enum"}
    /\ last.exc = NoExc
    /\ last' = Idle
    /\ heap' = heap

Next ==
    \/ NewSERASite
    \/ NewSiteDescription
    \/ NewSiteCharacterizationParameters
    \/ NewVelocityProfile
    \/ NewVelocityProfileData
    \/ NewSiteIndicator
    \/ NewH800_class
    \/ NewEC8_class
    \/ NewBedrockDepth
    \/ NewGeologicalUnit
    \/ NewResonanceFrequency
    \/ NewvelocityS30
    \/ NewLiteratureSource
    \/ CallCheckType
    \/ CallCheckEnum
    \/ Keep
    \/ Drop
    \/ Caught
    \/ Returned

Spec == Init /\ [][Next]_vars

-----------------------------------------------------------------------------
(* The data model the properties are stated against.                        *)

(* The entity the call in progress returned.                                *)
Fresh == heap[last.ret.n]

(* The reference-typed fields, with the type each is declared to hold.      *)
TypedFields ==
    {[cls |-> "SERASite", field |-> "site_description",
      type |-> "SiteDescription"],
     [cls |-> "SERASite", field |-> "site_characterization_parameters",
      type |-> "SiteCharacterizationParameters"],
     [cls |-> "SiteDescription", field |-> "EC8", type |-> "EC8_class"],
     [cls |-> "SiteDescription", field |-> "bedrock_depth",
      type |-> "BedrockDepth"],
     [cls |-> "SiteDescription", field |-> "H800", type |-> "H800_class"],
     [cls |-> "SiteDescription", field |-> "geological_unit",
      type |-> "GeologicalUnit"],
     [cls |-> "SiteCharacterizationParameters",
      field |-> "resonance_frequency", type |-> "ResonanceFrequency"],
     [cls |-> "SiteCharacterizationParameters", field |-> "velocity_s30",
      type |-> "velocityS30"]}

(* The enum-typed fields, with the allowed set of each as declared.         *)
EnumFields ==
    {[cls |-> "SiteDescription", field |-> "topologyA",
      allowed |-> <<"T1", "T2", "T3", "T4">>],
     [cls |-> "SiteDescription", field |-> "topologyB",
      allowed |-> <<"Valley", "Lower slope", "Flat", "Middle slope",
                    "Upper slope", "Ridge">>]}

(* The order in which a constructor validates its fields.                   *)
ValidationOrder(cls) ==
    CASE cls = "SERASite" ->
             <<"site_description", "site_characterization_parameters">>
      [] cls = "SiteDescription" ->
             <<"EC8", "bedrock_depth", "H800", "geological_unit",
               "topologyA", "topologyB">>
      [] cls = "SiteCharacterizationParameters" ->
             <<"resonance_frequency", "velocity_s30">>
      [] OTHER -> <<>>

(* value is an instance of the entity type.                                 *)
InstanceOf(value, type) == value.k = "ref" /\ heap[value.n].cls = type

MemberOf(value, allowed) ==
    value.k = "str" /\ \E i \in 1..Len(allowed) : allowed[i] = value.s

(* The field of the call in progress holds an absent or conforming value.   *)
FieldValid(field) ==
    /\ \A t \in TypedFields :
          (t.cls = last.op /\ t.field = field) =>
              \/ last.args[field] = None
              \/ InstanceOf(last.args[field], t.type)
    /\ \A e \in EnumFields :
          (e.cls = last.op /\ e.field = field) =>
              \/ last.args[field] = None
              \/ MemberOf(last.args[field], e.allowed)

(* The fields validated before the given one are all valid.                 *)
EarlierValid(field) ==
    LET order == ValidationOrder(last.op)
    IN \A i \in 1..Len(order) :
          (\E j \in (i + 1)..Len(order) : order[j] = field) =>
              FieldValid(order[i])

AllValid ==
    \A i \in 1..Len(ValidationOrder(last.op)) :
        FieldValid(ValidationOrder(last.op)[i])

SubtypeName(cls) ==
    CASE cls = "H800_class" -> "H800"
      [] cls = "EC8_class" -> "EC8"
      [] cls = "BedrockDepth" -> "bedrock_depth"
      [] cls = "GeologicalUnit" -> "geological_unit"
      [] cls = "ResonanceFrequency" -> "resonance_frequency"
      [] cls = "velocityS30" -> "velocity_s30"

(* The sequence field of a class, if it has one.                            *)
SequenceField(cls) ==
    IF cls = "SiteCharacterizationParameters" THEN "velocity_profile"
    ELSE "methods"

HasSequenceField(cls) ==
    cls \in {"SiteCharacterizationParameters", "SiteIndicator"}
            \cup IndicatorSubtypes

Defaulted(value) == IF value = None THEN List(<<>>) ELSE value

(* The field values a call provides: each argument under its field's name,  *)
(* an absent sequence argument as the empty sequence, a subtype's name.     *)
Provided(cls, args) ==
    CASE cls = "VelocityProfileData" ->
             [density |-> args.density, velocityP |-> args.velocityP,
              velocityS |-> args.velocityS,
              layerTopDepth |-> args.layer_top_depth,
              layerBottomDepth |-> args.layer_bottom_depth]
      [] cls = "SiteCharacterizationParameters" ->
             [args EXCEPT !.velocity_profile = Defaulted(@)]
      [] cls = "SiteIndicator" -> [args EXCEPT !.methods = Defaulted(@)]
      [] cls \in IndicatorSubtypes ->
             [name |-> Str(SubtypeName(cls))]
             @@ [args EXCEPT !.methods = Defaulted(@)]
      [] OTHER -> args

-----------------------------------------------------------------------------
C2_Enum ==
    \A e \in EnumFields :
        (last.op = e.cls /\ EarlierValid(e.field)) =>
            /\ (MemberOf(last.args[e.field], e.allowed) /\ AllValid) =>
                   /\ last.exc = NoExc
                   /\ Fresh.fields[e.field] = last.args[e.field]
            /\ ( /\ last.args[e.field].k = "str"
                 /\ ~MemberOf(last.args[e.field], e.allowed) ) =>
                   last.exc = ValueError(e.field, e.allowed,
                                         last.args[e.field])

(* topologyB outside its set was refused with topologyA a member of its.    *)
C2_Witness ==
    /\ last.op = "SiteDescription"
    /\ last.args.topologyA = Str("T2")
    /\ last.args.topologyB = Str("Hill")
    /\ last.exc.type = "ValueError"
    /\ last.exc.param = "topologyB"

(* C3: an absent or conforming value in a validated field never fails the   *)
(* construction on that field and is stored unchanged; a validator that     *)
(* returns returns its input.                                               *)
C3_AbsentOrConforming ==
    /\ \A i \in 1..Len(ValidationOrder(last.op)) :
          LET field == ValidationOrder(last.op)[i]
          IN /\ FieldValid(field) => last.exc.param # field
             /\ last.exc = NoExc => Fresh.fields[field] = last.args[field]
    /\ ( /\ last.op \in {"_sitexml_check_type", "_sitexml_check_enum"}
         /\ last.exc = NoExc ) => last.ret = last.args.value

(* A site was built without a description and with conforming parameters.   *)
C3_Witness ==
    /\ last.op = "SERASite"
    /\ last.exc = NoExc
    /\ last.args.site_description = None
    /\ InstanceOf(last.args.site_characterization_parameters,
                  "SiteCharacterizationParameters")
    /\ Fresh.fields.site_description = None
    /\ Fresh.fields.site_characterization_parameters =
           last.args.site_characterization_parameters

(* C4 as claimed: after a successful construction the stored methods or     *)
(* velocity_profile is a sequence, empty when the argument was absent,      *)
(* never absent and never a non-sequence value.                             *)
C4_AlwaysSequence ==
    (last.exc = NoExc /\ HasSequenceField(last.op)) =>
        LET f == SequenceField(last.op)
        IN /\ IsSequence(Fresh.fields[f])
           /\ last.args[f] = None => Fresh.fields[f] = List(<<>>)

(* C4 as amended: the stored field is never absent, is the empty sequence   *)
(* when the argument was absent, and is a sequence whenever the argument    *)
(* was a sequence.                                                          *)
C4_NeverAbsent ==
    (last.exc = NoExc /\ HasSequenceField(last.op)) =>
        LET f == SequenceField(last.op)
        IN /\ Fresh.fields[f] # None
           /\ last.args[f] = None => Fresh.fields[f] = List(<<>>)
           /\ IsSequence(last.args[f]) => IsSequence(Fresh.fields[f])

(* An indicator was built with no methods given.                            *)
C4_Witness ==
    /\ last.op = "ResonanceFrequency"
    /\ last.exc = NoExc
    /\ last.args.methods = None
    /\ Fresh.fields.methods = List(<<>>)

(* C5: a subtype's constructor takes no name, always succeeds, and leaves   *)
(* the fields the base constructor leaves for the subtype's literal name,   *)
(* with the subtype's own fields as given.                                  *)
C5_SubtypeName ==
    last.op \in IndicatorSubtypes =>
        LET a == last.args
            base == SiteIndicator_init(Str(SubtypeName(last.op)), a.value,
                        a.uncertainty, a.methods, a.quality_index,
                        a.literature_source, a.external_reference).fields
        IN /\ last.exc = NoExc
           /\ "name" \notin DOMAIN a
           /\ Fresh.cls = last.op
           /\ Fresh.fields.name = Str(SubtypeName(last.op))
           /\ \A f \in DOMAIN base : Fresh.fields[f] = base[f]
           /\ \A f \in DOMAIN a \ DOMAIN base : Fresh.fields[f] = a[f]
           /\ DOMAIN Fresh.fields = DOMAIN base \cup DOMAIN a
           /\ (last.op = "H800_class" /\ a = IndicatorBase) =>
                  /\ Fresh.fields.value = Num(1)
                  /\ Fresh.fields.methods = List(<<>>)

(* A velocityS30 was built with its own two fields given.                   *)
C5_Witness ==
    /\ last.op = "velocityS30"
    /\ last.exc = NoExc
    /\ last.args.method_combined_quality_index = Num(6)
    /\ last.args.manual_quality_index = Num(4)
    /\ Fresh.fields.name = Str("velocity_s30")
    /\ Fresh.fields.manual_quality_index = Num(4)

(* C6: a constructor call either returns a new entity with every declared   *)
(* field set, or raises TypeError or ValueError and leaves no entity.       *)
C6_TwoOutcomes ==
    [][(last.op = "idle" /\ last'.op \in EntityClasses) =>
          \/ /\ last'.exc = NoExc
             /\ last'.ret = Ref(Len(heap) + 1)
             /\ heap' = Append(heap, heap'[Len(heap) + 1])
             /\ heap'[Len(heap) + 1].cls = last'.op
             /\ DOMAIN heap'[Len(heap) + 1].fields =
                    DOMAIN Provided(last'.op, last'.args)
          \/ /\ last'.exc.type \in {"TypeError", "ValueError"}
             /\ last'.ret = None
             /\ heap' = heap]_vars

(* An enum-typed field given a number made the constructor fail.            *)
C6_Witness ==
    /\ last.op = "SiteDescription"
    /\ last.args.topologyA = Num(1)
    /\ last.exc.type = "ValueError"
    /\ last.ret = None

(* The parents of an entity. *)
Parents(c) == {p \in 1..Len(heap) : c \in Children(heap, p)}

(* C7 as claimed: the ownership graph is a forest: no entity is held by     *)
(* two parents and none is reachable from itself.                           *)
C7_Forest ==
    \A c \in 1..Len(heap) :
        /\ Cardinality(Parents(c)) <= 1
        /\ c \notin Descendants(heap, c)

(* C7 as amended: no entity is reachable from itself.                       *)
C7_Acyclic == \A c \in 1..Len(heap) : c \notin Descendants(heap, c)

(* One entity is held by two parents.                                       *)
C7_Witness == \E c \in 1..Len(heap) : Cardinality(Parents(c)) >= 2

(* The sequence argument is absent or true: stored as provided.             *)
SequenceArgStored ==
    HasSequenceField(last.op) =>
        \/ last.args[SequenceField(last.op)] = None
        \/ Truthy(last.args[SequenceField(last.op)])

C9_TupleOfTypes ==
    ( /\ last.op = "_sitexml_check_type"
      /\ last.args.expected_type.tk = "tuple" ) =>
        LET a == last.args
            fits == \E i \in 1..Len(a.expected_type.items) :
                        \/ a.value.k = a.expected_type.items[i]
                        \/ InstanceOf(a.value, a.expected_type.items[i])
        IN /\ fits => (last.exc = NoExc /\ last.ret = a.value)
           /\ (~fits /\ ~(a.allow_none /\ a.value = None)) =>
                  /\ last.exc.type = "TypeError"
                  /\ last.exc.param = a.param_name
                  /\ last.exc.actual = TypeName(heap, a.value)

(* C10 as claimed: every field is stored exactly as provided, the only      *)
(* substitution being the empty sequence for an absent sequence argument.   *)
C10_StoredAsProvided ==
    (last.op \in EntityClasses /\ last.exc = NoExc) =>
        Fresh.fields = Provided(last.op, last.args)

====
